---- MODULE Spec2Model ----
(***************************************************************************)
(* A model of scanner.py: EnhancedScanner.scan() and the methods it calls. *)
(*                                                                         *)
(* Time of day is counted in minutes of the UK day, a weekday as Python's  *)
(* weekday() (Monday = 0).  Prices are counted in units of 0.00001 (the    *)
(* five decimals the signal message prints), seconds in whole seconds.     *)
(* A Python None is the empty sequence << >>, a value v is << v >>.        *)
(***************************************************************************)
EXTENDS Integers, Sequences, FiniteSets, TLC

VARIABLES
    day,            \* the UK wall clock: weekday
    tod,            \* the UK wall clock: minute of the day
    ticks,          \* how often the clock moved on during the scan
    pc,             \* where scan() is
    now,            \* scan(): `now` of line 301, << >> before it is read
    si,             \* scan(): index of `strategy` in self.strategies
    pj,             \* scan(): index of `pair` in strategy['pairs']
    checked,        \* per strategy: what is_strategy_active read and returned
    entered,        \* the strategies whose pair loop was entered
    env,            \* per pair: what provider and market deliver at its turn
    scan_results,   \* scan(): scan_results
    signals,        \* self.signals
    signal_count,   \* scan(): signal_count
    requests,       \* the outbound data-provider requests, in order
    elapsed,        \* seconds since scan() began
    telegram,       \* the calls of send_telegram_message, in order
    error,          \* the exception that left scan(), "" when none
    tgt             \* a call of calculate_targets: arguments and result

scanVars == << day, tod, ticks, pc, now, si, pj, checked, entered, env,
               scan_results, signals, signal_count, requests, elapsed,
               telegram, error >>

vars == << day, tod, ticks, pc, now, si, pj, checked, entered, env,
           scan_results, signals, signal_count, requests, elapsed,
           telegram, error, tgt >>

-----------------------------------------------------------------------------
(* Bounds of the model *)

\* how often the clock may move to the next instant of interest during a scan
MaxTicks == 2

-----------------------------------------------------------------------------
(* Configuration and construction *)

API_CALL_DELAY == 8

\* datetime.time(h, m), as the minute of the day
T(h, m) == h * 60 + m

\* a decimal amount x, in price units
Units(x) == x * 100000

\* What the module-level name `time` is bound to when scan() runs: line 6
\* binds it to the module time, line 7 rebinds it to the class datetime.time.
time_name == "datetime.time"

\* time.sleep(...) raises AttributeError unless `time` is the module time
sleep_raises == time_name # "time"

strategies ==
    << [ name          |-> "Asian Range Breakout",
         pairs         |-> << "AUD/USD", "NZD/USD", "USD/JPY" >>,
         timeframe     |-> "15min",
         active_window |-> << T(0, 30), T(6, 0) >>,
         active_days   |-> {0, 1, 2, 3, 4},
         function      |-> "asian_range_breakout_strategy",
         data_source   |-> "twelvedata" ],
       [ name          |-> "Gold CMAR Strategy",
         pairs         |-> << "XAU/USD" >>,
         timeframe     |-> "1h",
         active_window |-> << T(9, 0), T(17, 0) >>,
         active_days   |-> {1, 2, 3},
         function      |-> "gold_strategy",
         data_source   |-> "goldapi" ] >>

Strategies == 1 .. Len(strategies)

PairsOf(s) == { strategies[s].pairs[j] : j \in 1 .. Len(strategies[s].pairs) }

AllPairs == UNION { PairsOf(s) : s \in Strategies }

-----------------------------------------------------------------------------
(* The clock *)

\* the instants of a day the model distinguishes: each boundary the code
\* compares against, the minute before and the minute after
TimesOfDay ==
    { T(0, 0), T(0, 29), T(0, 30), T(0, 31), T(5, 59), T(6, 0), T(6, 1),
      T(8, 59), T(9, 0), T(9, 1), T(16, 59), T(17, 0), T(17, 1),
      T(17, 59), T(18, 0), T(18, 1), T(18, 59), T(19, 0), T(19, 1),
      T(23, 59) }

Later(t) == { u \in TimesOfDay : u > t }

Least(S) == CHOOSE x \in S : \A y \in S : x <= y

\* datetime.now(self.uk_tz): weekday(), time() and hour of the clock
get_uk_time == [ weekday |-> day, time |-> tod, hour |-> tod \div 60 ]

-----------------------------------------------------------------------------
(* Methods *)

is_strategy_active_at_end(strategy, t) ==
    IF t.weekday \notin strategy.active_days
    THEN FALSE
    ELSE /\ strategy.active_window[1] <= t.time
         /\ t.time <= strategy.active_window[2]

is_strategy_active(strategy, t) ==
    IF t.weekday \notin strategy.active_days
    THEN FALSE
    ELSE /\ strategy.active_window[1] <= t.time
         /\ t.time < strategy.active_window[2]

\* What the provider and the market deliver for one pair: whether the price
\* request is answered and with what, whether the OHLC request is answered
\* and with how many complete rows, and what the candles say.
PairEnv ==
    [ price_ok : BOOLEAN, price : { Units(2) },
      data_ok : BOOLEAN, rows : { 10, 19, 20, 49, 50, 100 },
      market : { "none", "BUY", "SELL" } ]

\* any exception of the request or of float(data['price']) gives None
get_current_price(e) == IF e.price_ok THEN << e.price >> ELSE << >>

\* the frame is modelled by the number of its rows after dropna()
fetch_ohlc_data(e) == IF e.data_ok THEN << e.rows >> ELSE << >>

asian_range_breakout_strategy(df, current_price, e) ==
    IF df = << >> \/ df[1] < 20
    THEN << >>
    ELSE IF e.market = "none"
         THEN << >>
         ELSE << [ direction    |-> e.market,
                   session_high |-> current_price,
                   session_low  |-> current_price,
                   pip_value    |-> 10000 ] >>

gold_strategy(df, current_price, e) ==
    IF df = << >> \/ df[1] < 50
    THEN << >>
    ELSE IF e.market = "none"
         THEN << >>
         ELSE << [ direction       |-> e.market,
                   predicted_price |-> current_price,
                   pip_value       |-> 10 ] >>

\* strategy['function'](df, current_price)
strategy_function(strategy, df, current_price, e) ==
    IF strategy.function = "gold_strategy"
    THEN gold_strategy(df, current_price, e)
    ELSE asian_range_breakout_strategy(df, current_price, e)

calculate_targets_ge(signal, current_price) ==
    LET pip_value == IF "pip_value" \in DOMAIN signal
                     THEN signal.pip_value ELSE 10000
        base_sl == Units(15) \div pip_value
        base_tp == IF "atr" \in DOMAIN signal
                   THEN IF signal.atr * pip_value >= Units(15)
                        THEN Units(25) \div pip_value
                        ELSE IF signal.atr * pip_value < Units(8)
                             THEN Units(15) \div pip_value
                             ELSE Units(20) \div pip_value
                   ELSE Units(20) \div pip_value
    IN  IF signal.direction = "BUY"
        THEN [ tp   |-> current_price + base_tp,
               sl   |-> current_price - base_sl,
               pips |-> (base_tp * pip_value) \div Units(1) ]
        ELSE [ tp   |-> current_price - base_tp,
               sl   |-> current_price + base_sl,
               pips |-> (base_tp * pip_value) \div Units(1) ]

calculate_targets(signal, current_price) ==
    LET pip_value == IF "pip_value" \in DOMAIN signal
                     THEN signal.pip_value ELSE 10000
        base_sl == Units(15) \div pip_value
        base_tp == IF "atr" \in DOMAIN signal
                   THEN IF signal.atr * pip_value > Units(15)
                        THEN Units(25) \div pip_value
                        ELSE IF signal.atr * pip_value < Units(8)
                             THEN Units(15) \div pip_value
                             ELSE Units(20) \div pip_value
                   ELSE Units(20) \div pip_value
    IN  IF signal.direction = "BUY"
        THEN [ tp   |-> current_price + base_tp,
               sl   |-> current_price - base_sl,
               pips |-> (base_tp * pip_value) \div Units(1) ]
        ELSE [ tp   |-> current_price - base_tp,
               sl   |-> current_price + base_sl,
               pips |-> (base_tp * pip_value) \div Units(1) ]

\* what the notification sink does with one sendMessage request
SinkOutcomes == { "accepted", "error_response", "timeout", "connection_error" }

\* requests.post raises on a timeout or a connection failure only; a response
\* is not looked at, whatever its status
send_telegram_message(outcome) ==
    IF outcome \in { "timeout", "connection_error" } THEN FALSE ELSE TRUE

\* seconds a data-provider request may take before it returns
RequestSeconds == { 0, 1, 15 }

\* f"... {signal_count} SIGNAL{'S' if signal_count != 1 else ''} FOUND"
\* if signal_count else "... NO SIGNALS"
summary_title(count) ==
    IF count # 0
    THEN [ count |-> count,
           text  |-> IF count # 1 THEN "SIGNALS FOUND" ELSE "SIGNAL FOUND" ]
    ELSE [ count |-> 0, text |-> "NO SIGNALS" ]

-----------------------------------------------------------------------------
(* scan() *)

NoTargetsCall ==
    [ called |-> FALSE, signal |-> [ direction |-> "BUY" ], price |-> 0,
      result |-> [ tp |-> 0, sl |-> 0, pips |-> 0 ] ]

Init ==
    /\ day \in 0 .. 6
    /\ tod \in TimesOfDay
    /\ ticks = 0
    /\ pc = "start"
    /\ now = << >>
    /\ si = 1
    /\ pj = 1
    /\ checked = [ s \in Strategies |-> << >> ]
    /\ entered = {}
    /\ env = [ p \in AllPairs |-> << >> ]
    /\ scan_results = << >>
    /\ signals = << >>
    /\ signal_count = 0
    /\ requests = << >>
    /\ elapsed = 0
    /\ telegram = << >>
    /\ error = ""
    /\ tgt = NoTargetsCall

\* The clock moves on to the next instant of interest while scan() runs.
Tick ==
    /\ pc \in { "strategy", "pair", "summary" }
    /\ ticks < MaxTicks
    /\ ticks' = ticks + 1
    /\ IF Later(tod) # {}
       THEN tod' = Least(Later(tod)) /\ day' = day
       ELSE tod' = Least(TimesOfDay) /\ day' = (day + 1) % 7
    /\ UNCHANGED << pc, now, si, pj, checked, entered, env, scan_results,
                    signals, signal_count, requests, elapsed, telegram,
                    error, tgt >>

\* lines 301-308: the weekend
SkipWeekend ==
    /\ pc = "start"
    /\ get_uk_time.weekday >= 5
    /\ now' = << get_uk_time >>
    /\ pc' = "skipped"
    /\ UNCHANGED << day, tod, ticks, si, pj, checked, entered, env,
                    scan_results, signals, signal_count, requests, elapsed,
                    telegram, error, tgt >>

\* lines 301-313: Friday evening
SkipFridayEvening ==
    /\ pc = "start"
    /\ get_uk_time.weekday < 5
    /\ get_uk_time.weekday = 4 /\ get_uk_time.hour > 18
    /\ now' = << get_uk_time >>
    /\ pc' = "skipped"
    /\ UNCHANGED << day, tod, ticks, si, pj, checked, entered, env,
                    scan_results, signals, signal_count, requests, elapsed,
                    telegram, error, tgt >>

\* lines 301-320: the global time check passes and the strategy loop begins
BeginScan ==
    /\ pc = "start"
    /\ get_uk_time.weekday < 5
    /\ ~ (get_uk_time.weekday = 4 /\ get_uk_time.hour > 18)
    /\ now' = << get_uk_time >>
    /\ scan_results' = << >>
    /\ signal_count' = 0
    /\ si' = 1
    /\ pc' = "strategy"
    /\ UNCHANGED << day, tod, ticks, pj, checked, entered, env, signals,
                    requests, elapsed, telegram, error, tgt >>

\* the loop of line 320 moves to the strategy after s, or past the last one
AfterStrategy(s) ==
    /\ si' = s + 1
    /\ pj' = 1
    /\ pc' = IF s + 1 <= Len(strategies) THEN "strategy" ELSE "summary"

\* lines 320-328: one strategy's activity check
CheckStrategy ==
    /\ pc = "strategy"
    /\ LET strategy == strategies[si]
           active   == is_strategy_active(strategy, get_uk_time)
       IN  /\ checked' = [ checked EXCEPT ![si] =
                             << [ active  |-> active,
                                  weekday |-> get_uk_time.weekday,
                                  time    |-> get_uk_time.time ] >> ]
           /\ IF active
              THEN /\ entered' = entered \cup { si }
                   /\ pj' = 1
                   /\ pc' = "pair"
                   /\ si' = si
              ELSE /\ entered' = entered
                   /\ AfterStrategy(si)
    /\ UNCHANGED << day, tod, ticks, now, env, scan_results, signals,
                    signal_count, requests, elapsed, telegram, error, tgt >>

\* the loop of line 328 moves to the pair after this one, or to the next
\* strategy
AfterPair ==
    IF pj < Len(strategies[si].pairs)
    THEN pj' = pj + 1 /\ pc' = "pair" /\ si' = si
    ELSE AfterStrategy(si)

Status(strategy, pair, text) ==
    [ strategy |-> strategy.name, pair |-> pair, status |-> text ]

Request(api, pair, at) == [ api |-> api, pair |-> pair, at |-> at ]

\* lines 330-407, reached when the sleep of line 329 returns: the requests
\* for one pair, its strategy, its signal message and its status
PairBody(strategy, pair, e, sink, d1, d2) ==
    LET t1 == elapsed + API_CALL_DELAY
        current_price == get_current_price(e)
        req1 == Append(requests, Request("price", pair, t1))
        t2 == t1 + d1
        df == fetch_ohlc_data(e)
        req2 == Append(req1, Request("ohlc", pair, t2))
        t3 == t2 + d2
    IN  IF current_price = << >>
        THEN /\ requests' = req1
             /\ elapsed' = t2
             /\ scan_results' = Append(scan_results,
                                   Status(strategy, pair, "Price fetch failed"))
             /\ UNCHANGED << signals, signal_count, telegram >>
        ELSE IF df = << >> \/ df[1] < 20
        THEN /\ requests' = req2
             /\ elapsed' = t3
             /\ scan_results' = Append(scan_results,
                                   Status(strategy, pair, "Data fetch failed"))
             /\ UNCHANGED << signals, signal_count, telegram >>
        ELSE LET signal == strategy_function(strategy, df, current_price[1], e)
             IN  /\ requests' = req2
                 /\ elapsed' = t3
                 /\ IF signal # << >>
                    THEN LET targets == calculate_targets(signal[1],
                                                          current_price[1])
                             signal_details ==
                                 [ entry    |-> current_price[1],
                                   tp       |-> targets.tp,
                                   sl       |-> targets.sl,
                                   pips     |-> targets.pips,
                                   strategy |-> strategy.name,
                                   pair     |-> pair ]
                             full_signal == signal_details @@ signal[1]
                             sent == send_telegram_message(sink)
                         IN  /\ signals' = Append(signals, full_signal)
                             /\ telegram' = Append(telegram,
                                   [ kind     |-> "signal",
                                     pair     |-> pair,
                                     title    |-> summary_title(0),
                                     outcome  |-> sink,
                                     returned |-> sent ])
                             /\ signal_count' = signal_count + 1
                             /\ scan_results' = Append(scan_results,
                                   Status(strategy, pair,
                                          IF sent THEN "Signal sent"
                                          ELSE "Signal (Telegram failed)"))
                    ELSE /\ scan_results' = Append(scan_results,
                                   Status(strategy, pair, "No signal"))
                         /\ UNCHANGED << signals, signal_count, telegram >>

\* lines 328-407: one pair of an active strategy.  Line 329 calls time.sleep;
\* when that raises, the exception leaves scan().
ScanPair ==
    /\ pc = "pair"
    /\ \E e \in PairEnv, sink \in SinkOutcomes, d1 \in RequestSeconds,
          d2 \in RequestSeconds :
          LET strategy == strategies[si]
              pair     == strategy.pairs[pj]
          IN  /\ env' = [ env EXCEPT ![pair] = << e >> ]
              /\ IF sleep_raises
                 THEN /\ pc' = "crashed"
                      /\ error' = "AttributeError"
                      /\ UNCHANGED << si, pj, scan_results, signals,
                                      signal_count, requests, elapsed,
                                      telegram >>
                 ELSE /\ PairBody(strategy, pair, e, sink, d1, d2)
                      /\ AfterPair
                      /\ error' = error
    /\ UNCHANGED << day, tod, ticks, now, checked, entered, tgt >>

\* lines 409-420: the summary message
SendSummary ==
    /\ pc = "summary"
    /\ \E sink \in SinkOutcomes :
          telegram' = Append(telegram,
                        [ kind     |-> "summary",
                          pair     |-> "",
                          title    |-> summary_title(signal_count),
                          outcome  |-> sink,
                          returned |-> send_telegram_message(sink) ])
    /\ pc' = "done"
    /\ UNCHANGED << day, tod, ticks, now, si, pj, checked, entered, env,
                    scan_results, signals, signal_count, requests, elapsed,
                    error, tgt >>

Next ==
    \/ Tick
    \/ SkipWeekend
    \/ SkipFridayEvening
    \/ BeginScan
    \/ CheckStrategy
    \/ ScanPair
    \/ SendSummary

Spec == Init /\ [][Next]_vars

-----------------------------------------------------------------------------
(* calculate_targets called on its own *)

AtrValues == { 0, 79, 80, 81, 149, 150, 151, 8000, 15000, 15001,
               80000, 150000, 150001 }

PipValues == { 10, 100, 10000 }

TargetSignals ==
    LET Plain   == { [ direction |-> d ] : d \in { "BUY", "SELL" } }
        WithPip == { ("pip_value" :> v) @@ r : v \in PipValues, r \in Plain }
        Both    == Plain \cup WithPip
    IN  Both \cup { ("atr" :> a) @@ r : a \in AtrValues, r \in Both }

TargetPrices == { 65432, Units(1), Units(2000) }

InitTargets ==
    /\ day = 0
    /\ tod = T(0, 0)
    /\ ticks = 0
    /\ pc = "start"
    /\ now = << >>
    /\ si = 1
    /\ pj = 1
    /\ checked = [ s \in Strategies |-> << >> ]
    /\ entered = {}
    /\ env = [ p \in AllPairs |-> << >> ]
    /\ scan_results = << >>
    /\ signals = << >>
    /\ signal_count = 0
    /\ requests = << >>
    /\ elapsed = 0
    /\ telegram = << >>
    /\ error = ""
    /\ \E sg \in TargetSignals, pr \in TargetPrices :
          tgt = [ NoTargetsCall EXCEPT !.signal = sg, !.price = pr ]

CallCalculateTargets ==
    /\ ~ tgt.called
    /\ tgt' = [ tgt EXCEPT !.called = TRUE,
                           !.result = calculate_targets(tgt.signal, tgt.price) ]
    /\ UNCHANGED scanVars

NextTargets == CallCalculateTargets

SpecTargets == InitTargets /\ [][NextTargets]_vars

-----------------------------------------------------------------------------
(* What the claims are stated over *)

StatusesOf(pair) ==
    { i \in 1 .. Len(scan_results) : scan_results[i].pair = pair }

RequestsOf(api, pair) ==
    { i \in 1 .. Len(requests) :
        requests[i].api = api /\ requests[i].pair = pair }

SignalsOf(pair) == { i \in 1 .. Len(signals) : signals[i].pair = pair }

SignalMessagesOf(pair) ==
    { i \in 1 .. Len(telegram) :
        telegram[i].kind = "signal" /\ telegram[i].pair = pair }

Summaries == { i \in 1 .. Len(telegram) : telegram[i].kind = "summary" }

SignalStatuses ==
    { i \in 1 .. Len(scan_results) :
        scan_results[i].status \in { "Signal sent", "Signal (Telegram failed)" } }

\* the pair's turn in the loop of line 328 has come
TurnCame(pair) == env[pair] # << >>

StrategyOf(pair) == CHOOSE s \in Strategies : pair \in PairsOf(s)

\* the pair's data is fetched and its strategy returns a signal
SignalDue(pair) ==
    LET e == env[pair][1]
    IN  /\ e.price_ok
        /\ e.data_ok
        /\ e.rows >= 20
        /\ strategy_function(strategies[StrategyOf(pair)], << e.rows >>,
                             e.price, e) # << >>

-----------------------------------------------------------------------------
(* The claims *)

C2_ScanEndsWithOneSummary ==
    pc \in { "done", "crashed" } =>
       /\ pc = "done"
       /\ error = ""
       /\ Cardinality(Summaries) = 1

\* C3: a failed fetch only degrades its pair.  A pair whose price fetch fails
\* gets the one status 'Price fetch failed', no OHLC request, no signal and no
\* signal message; a pair whose OHLC fetch gives nothing or fewer than 20 rows
\* gets the one status 'Data fetch failed', no signal and no signal message;
\* and the scan goes on.
C3_FailedFetchDegradesPairOnly ==
    \A p \in AllPairs :
       TurnCame(p) =>
          LET e == env[p][1]
              failed == IF ~ e.price_ok THEN "Price fetch failed"
                        ELSE "Data fetch failed"
          IN  (~ e.price_ok \/ ~ e.data_ok \/ e.rows < 20) =>
                 /\ error = ""
                 /\ Cardinality(StatusesOf(p)) = 1
                 /\ \A i \in StatusesOf(p) : scan_results[i].status = failed
                 /\ ~ e.price_ok => RequestsOf("ohlc", p) = {}
                 /\ SignalsOf(p) = {}
                 /\ SignalMessagesOf(p) = {}

\* C4: a scan started on a Saturday, on a Sunday or on a Friday after 18:00
\* is skipped: no data-provider request, no Telegram message, self.signals
\* as it was.
C4_WeekendAndFridayEveningSkipped ==
    (/\ now # << >>
     /\ \/ now[1].weekday >= 5
        \/ now[1].weekday = 4 /\ now[1].time > T(18, 0))
    => /\ pc = "skipped"
       /\ requests = << >>
       /\ telegram = << >>
       /\ signals = << >>

\* the windows as the claim C5 gives them
InClaimedWindow(s, weekday, time) ==
    IF strategies[s].name = "Asian Range Breakout"
    THEN weekday \in 0 .. 4 /\ T(0, 30) <= time /\ time < T(6, 0)
    ELSE weekday \in 1 .. 3 /\ T(9, 0) <= time /\ time < T(17, 0)

Untouched(s) ==
    /\ s \notin entered
    /\ \A p \in PairsOf(s) :
          /\ ~ TurnCame(p)
          /\ StatusesOf(p) = {}
          /\ SignalsOf(p) = {}
          /\ SignalMessagesOf(p) = {}
          /\ \A i \in 1 .. Len(requests) : requests[i].pair # p

\* C5: the pair loop of a strategy is entered only if the UK time read at
\* its check lies in its window on one of its days (Asian Range Breakout
\* Monday-Friday 00:30-06:00, Gold CMAR Tuesday-Thursday 09:00-17:00, the end
\* excluded); a strategy not yet checked or found inactive has no request, no
\* status and no signal for any of its pairs.
C5_OnlyActiveStrategiesScanned ==
    \A s \in Strategies :
       IF checked[s] = << >>
       THEN Untouched(s)
       ELSE LET c == checked[s][1]
            IN  IF InClaimedWindow(s, c.weekday, c.time)
                THEN c.active
                ELSE ~ c.active /\ Untouched(s)

\* C5's case: the first strategy was checked outside its window and passed
\* over, the second inside its window and its pair loop entered
C5_Witness ==
    /\ checked[1] # << >>
    /\ ~ checked[1][1].active
    /\ 2 \in entered
    /\ TurnCame("XAU/USD")

\* C6: send_telegram_message returns True only when the sink accepted the
\* message and False for every failed delivery, an error response included;
\* 'Signal sent' is the status only of a pair whose signal message was
\* delivered.
C6_TruthfulDeliveryStatus ==
    /\ \A i \in 1 .. Len(telegram) :
          telegram[i].returned = (telegram[i].outcome = "accepted")
    /\ \A j \in 1 .. Len(scan_results) :
          scan_results[j].status = "Signal sent" =>
             \E i \in SignalMessagesOf(scan_results[j].pair) :
                telegram[i].outcome = "accepted"

\* C7: a pair whose strategy returns a signal gets exactly one notification
\* attempt, its signal in self.signals and a 'Signal' status, and the scan
\* goes on; at the end signal_count = len(self.signals) = the number of
\* 'Signal' statuses, and the summary says NO SIGNALS exactly when that is 0.
C7_OneAttemptPerSignal ==
    /\ \A p \in AllPairs :
          (TurnCame(p) /\ SignalDue(p)) =>
             /\ error = ""
             /\ Cardinality(SignalMessagesOf(p)) = 1
             /\ Cardinality(SignalsOf(p)) = 1
             /\ StatusesOf(p) \subseteq SignalStatuses
             /\ Cardinality(StatusesOf(p)) = 1
    /\ pc = "done" =>
          /\ signal_count = Len(signals)
          /\ signal_count = Cardinality(SignalStatuses)
          /\ \A i \in Summaries :
                (telegram[i].title.text = "NO SIGNALS") <=> (signal_count = 0)

\* C8: calculate_targets puts the stop-loss 15 pips and the take-profit
\* base_tp pips from the entry, on opposite sides (BUY: sl < price < tp,
\* SELL: tp < price < sl); base_tp is 25 pips when the signal has an atr with
\* atr * pip_value > 15, 15 pips when it is < 8, 20 pips otherwise; the third
\* value returned is that number; pip_value is 10000 when the signal has none.
C8_TargetsAsDocumented ==
    tgt.called =>
       LET g == tgt.signal
           pv == IF "pip_value" \in DOMAIN g THEN g.pip_value ELSE 10000
           n == IF "atr" \in DOMAIN g /\ g.atr * pv > Units(15) THEN 25
                ELSE IF "atr" \in DOMAIN g /\ g.atr * pv < Units(8) THEN 15
                ELSE 20
           r == tgt.result
       IN  /\ r.pips = n
           /\ IF g.direction = "BUY"
              THEN /\ r.sl < tgt.price /\ tgt.price < r.tp
                   /\ (r.tp - tgt.price) * pv = Units(n)
                   /\ (tgt.price - r.sl) * pv = Units(15)
              ELSE /\ r.tp < tgt.price /\ tgt.price < r.sl
                   /\ (tgt.price - r.tp) * pv = Units(n)
                   /\ (r.sl - tgt.price) * pv = Units(15)

\* C8's case: a BUY signal without pip_value whose atr makes the volatility
\* exceed 15 has got its targets
C8_Witness ==
    /\ tgt.called
    /\ tgt.signal.direction = "BUY"
    /\ "pip_value" \notin DOMAIN tgt.signal
    /\ "atr" \in DOMAIN tgt.signal
    /\ tgt.signal.atr = 151
    /\ tgt.result.pips = 25

====
